---- MODULE Spec2Model ----
(***************************************************************************)
(* Importance-gated pruning engine of the Hoeffding Pruning Tree:          *)
(*   - reproducible_ipfi/reservoir.py   (GeometricReservoirStorage,        *)
(*                                       UniformReservoirStorage)          *)
(*   - pruner/complete_pruner.py, pruner/selective_pruner.py               *)
(*   - tree/hoeffding_pruning_tree.py   (HoeffdingPruningTree)             *)
(*                                                                         *)
(* Three specifications share the variables below:                         *)
(*   SpecRes   - one reservoir object and its update() calls               *)
(*   SpecPrune - a tree built by the external growth routine, on which     *)
(*               prune_tree() of either pruner is called directly          *)
(*   Spec      - the controller: a sequence of learn_one() calls           *)
(***************************************************************************)
EXTENDS Integers, Sequences, FiniteSets, TLC

(***************************************************************************)
(* Bounds                                                                  *)
(***************************************************************************)
\* largest reservoir capacity (the `size` constructor argument)
MaxSize == 2
\* number of update() calls fed to one reservoir
MaxStream == 7
\* uniform draws of rng.random() for the geometric variant are r / GridDen
GridDen == 4
\* grid of the uniform variant's decay state and of its skip draws
MaxLog == 2
\* largest number of nodes the growth routine lets the tree have
MaxNodes == 5
\* leaf statistics are a number in 0..MaxStat
MaxStat == 1
\* the growth routine's max_depth: a leaf at this depth is not split
MaxDepth == 2
\* importance values are 0..MaxValue, in units of the threshold
MaxValue == 1
\* largest n_samples that impute() is called with
MaxSamples == 2

(***************************************************************************)
(* Reservoir state (reservoir.py)                                          *)
(***************************************************************************)
VARIABLES
    kind,                  \* "geometric" | "uniform" | "none": which class was constructed
    size,                  \* self.size
    store_targets,         \* self.store_targets
    constant_probability,  \* self.constant_probability as <<num, den>>
    storage_x,             \* self._storage_x; the i-th stream item is the number i
    storage_y,             \* self._storage_y; the label passed with item i is YOf(i)
    stored_samples,        \* self.stored_samples (uniform variant)
    algo_wt,               \* self._algo_wt  = 1 - 2^(-algo_wt)
    algo_l_counter,        \* self._algo_l_counter
    n_updates,             \* history: number of update() calls made
    n_repl,                \* history: number of replacements the object performed
    random_float,          \* history: what self.rng.random() returned at line 26 of the
                           \* last update(), as a multiple of 1 / GridDen (NoDraw: no draw)
    ref_R, ref_W, ref_next \* reference Algorithm L run on the same stream and draws

resVars == <<kind, size, store_targets, constant_probability, storage_x, storage_y,
             stored_samples, algo_wt, algo_l_counter, n_updates, n_repl, random_float,
             ref_R, ref_W, ref_next>>

(***************************************************************************)
(* Tree and controller state (hoeffding_pruning_tree.py)                   *)
(***************************************************************************)
VARIABLES
    heap,                     \* the node objects: node id -> node
    root,                     \* self._root (None before the first observation)
    n_active_leaves,          \* self._n_active_leaves
    n_inactive_leaves,        \* self._n_inactive_leaves
    incremental_pfi,          \* self.incremental_pfi is not None
    feature_names,            \* self.feature_names (<<>> while None)
    important_features,       \* self.important_features (<<>> while None)
    last_important_features,  \* self.last_important_features ({} while None)
    importance_values,        \* self.incremental_pfi.importance_values
    pruner,                   \* "selective" | "complete": class of self.pruner
                              \* ("none": there is no tree object)
    pruner_arg,               \* history: the `pruner` argument the constructor was given
    init_error,               \* what the constructor raised (NoError: it returned)
    pre,                      \* history: the tree as it was when prune_tree() was last entered
    calls                     \* history: what the last operation did

treeVars == <<heap, root, n_active_leaves, n_inactive_leaves, incremental_pfi,
              feature_names, important_features, last_important_features,
              importance_values, pruner, pruner_arg, init_error, pre, calls>>

(***************************************************************************)
(* MarginalImputer state (marginal_imputer.py)                             *)
(***************************************************************************)
VARIABLES
    sampling_strategy,  \* self.sampling_strategy ("none": no imputer constructed)
    imp_called,         \* history: impute() has been called
    imp_args,           \* history: feature_subset and n_samples of the last impute() call
    predictions,        \* what the last impute() call returned (<<>> when it raised)
    imp_error,          \* the last impute() call raised
    evaluated,          \* history: the instances the last call passed to model_function
    rand_idxs           \* history: per sample of the last call, the indices randint returned

impVars == <<sampling_strategy, imp_called, imp_args, predictions, imp_error, evaluated,
             rand_idxs>>

vars == <<resVars, treeVars, impVars>>

Sizes == 1..MaxSize
\* the label that the stream carries with item i
YOf(i) == <<"y", i>>
\* rng.random() of the geometric variant: r stands for the value r / GridDen in [0, 1)
UnitDraws == 0..(GridDen - 1)
\* the uniform variant's decay state W is kept on the grid W = 1 - 2^(-m), m in 1..MaxLog
WtGrid == 1..MaxLog
\* rng.random() used for a skip: e stands for the value 2^(-e); e = 0 is a draw next to 1
SkipDraws == 0..MaxLog

Min(a, b) == IF a <= b THEN a ELSE b

\* list[idx] = v
SetItem(list, idx, v) == [list EXCEPT ![idx + 1] = v]

\* the label is appended instead of written to the slot
SetTargetAppend(st, list, idx, y) == IF st THEN Append(list, y) ELSE list

\* if self.store_targets: self._storage_y[rand_idx] = y
SetTarget(st, list, idx, y) == IF st THEN SetItem(list, idx, y) ELSE list

(***************************************************************************)
(* GeometricReservoirStorage                                               *)
(***************************************************************************)
\* 1 / self.size, or the constructor argument
DefaultProbability(sz) == <<1, sz>>

\* len(self._storage_x) <= self.size: one append too many
HasRoomOffByOne(list, sz) == Len(list) <= sz

\* len(self._storage_x) < self.size
HasRoom(list, sz) == Len(list) < sz

\* rng.random() lies in [0, 1): the value 1 stands for "nothing was drawn"
NoDraw == GridDen

\* random_float <= self.constant_probability, with random_float = r / GridDen
Included(r, p) == r * p[2] <= p[1] * GridDen

GeometricInit ==
    /\ kind = "geometric"
    /\ size \in Sizes
    /\ store_targets \in BOOLEAN
    /\ constant_probability \in {DefaultProbability(size)} \cup {<<c, GridDen>> : c \in {1, 2}}
    /\ storage_x = <<>>
    /\ storage_y = <<>>
    /\ stored_samples = 0
    /\ algo_wt = 0
    /\ algo_l_counter = 0

\* GeometricReservoirStorage.update(x, y): x is stream item n_updates + 1
GeometricUpdate(r, rand_idx) ==
    /\ kind = "geometric"
    /\ n_updates < MaxStream
    /\ rand_idx < size
    /\ LET x == n_updates + 1
           y == YOf(x)
       IN
       IF HasRoom(storage_x, size)
       THEN /\ storage_x' = Append(storage_x, x)
            /\ storage_y' = IF store_targets THEN Append(storage_y, y) ELSE storage_y
            /\ n_repl' = n_repl
            /\ random_float' = NoDraw
       ELSE /\ random_float' = r
            /\ IF Included(r, constant_probability)
               THEN /\ storage_x' = SetItem(storage_x, rand_idx, x)
                    /\ storage_y' = SetTarget(store_targets, storage_y, rand_idx, y)
                    /\ n_repl' = n_repl + 1
               ELSE /\ UNCHANGED <<storage_x, storage_y, n_repl>>
    /\ n_updates' = n_updates + 1
    /\ UNCHANGED <<kind, size, store_targets, constant_probability, stored_samples,
                   algo_wt, algo_l_counter, ref_R, ref_W, ref_next>>
    /\ UNCHANGED <<treeVars, impVars>>

(***************************************************************************)
(* UniformReservoirStorage                                                 *)
(***************************************************************************)
\* np.floor(np.log(u) / np.log(1 - W)) without the + 1
SkipFromZero(e, m) == e \div m

\* np.floor(np.log(u) / np.log(1 - W)) + 1 for u = 2^(-e) and 1 - W = 2^(-m):
\* log(u) / log(1 - W) = e / m
Skip(e, m) == (e \div m) + 1

\* W * np.exp(np.log(u) / self.size): the factor is in (0, 1], so the product is not
\* above W; the draw d moves W down d grid values (d = 0: a draw next to 1), and the
\* grid ends at W = 1/2
Decay(m, d) == IF m - d >= 1 THEN m - d ELSE 1

\* the draws one replacement takes from the generator
ReplDraws == [skip : SkipDraws, idx : 0..(MaxSize - 1), decay : 0..(MaxLog - 1)]

UniformInit ==
    /\ kind = "uniform"
    /\ size \in Sizes
    /\ store_targets \in BOOLEAN
    /\ constant_probability = <<0, 1>>
    /\ storage_x = <<>>
    /\ storage_y = <<>>
    /\ stored_samples = 0
    /\ algo_wt \in WtGrid
    /\ \E e \in SkipDraws : algo_l_counter = size + Skip(e, algo_wt)

\* reference Algorithm L (en.wikipedia.org/wiki/Reservoir_sampling, cited by the
\* docstring of update) consuming stream item i; d are the draws the generator
\* yields for a replacement at this item
RefStep(i, d) ==
    IF i <= size
    THEN /\ ref_R' = Append(ref_R, i)
         /\ UNCHANGED <<ref_W, ref_next>>
    ELSE IF ref_next = i
         THEN LET w == Decay(ref_W, d.decay)
              IN /\ ref_R' = SetItem(ref_R, d.idx, i)
                 /\ ref_W' = w
                 /\ ref_next' = i + Skip(d.skip, w)
         ELSE UNCHANGED <<ref_R, ref_W, ref_next>>

\* UniformReservoirStorage.update(x, y): x is stream item n_updates + 1
UniformUpdate(d) ==
    /\ kind = "uniform"
    /\ n_updates < MaxStream
    /\ d.idx < size
    /\ LET x == n_updates + 1
           y == YOf(x)
       IN
       /\ stored_samples' = stored_samples + 1
       /\ IF stored_samples' <= size
          THEN /\ storage_x' = Append(storage_x, x)
               /\ storage_y' = IF store_targets THEN Append(storage_y, y) ELSE storage_y
               /\ UNCHANGED <<algo_wt, algo_l_counter, n_repl>>
          ELSE IF algo_l_counter = stored_samples'
               THEN /\ algo_l_counter' = algo_l_counter + Skip(d.skip, algo_wt)
                    /\ storage_x' = SetItem(storage_x, d.idx, x)
                    /\ storage_y' = SetTarget(store_targets, storage_y, d.idx, y)
                    /\ algo_wt' = Decay(algo_wt, d.decay)
                    /\ n_repl' = n_repl + 1
               ELSE UNCHANGED <<storage_x, storage_y, algo_wt, algo_l_counter, n_repl>>
       /\ RefStep(x, d)
    /\ n_updates' = n_updates + 1
    /\ random_float' = NoDraw
    /\ UNCHANGED <<kind, size, store_targets, constant_probability>>
    /\ UNCHANGED <<treeVars, impVars>>

(***************************************************************************)
(* Tree nodes (river HTLeaf / DTBranch as the pruners use them)            *)
(***************************************************************************)
None == 0
Features == {"A", "B"}
\* x.keys() of the first observation
InstanceKeys == <<"A", "B">>
\* x.keys() of an observation: the features of the first one, or, for a later
\* observation, those and one more (without the additional feature the growth
\* routine can do a part of what it can do with it)
KeyLists == {InstanceKeys, InstanceKeys \o <<"C">>}
Stats == 0..MaxStat
\* number of children a split creates (binary splits)
Arities == {2}

\* HTLeaf(initial_stats, depth): a new leaf is active
Leaf(stats, depth) ==
    [kind |-> "leaf", feature |-> "", children |-> <<>>, stats |-> stats,
     active |-> TRUE, depth |-> depth]

\* DTBranch(stats, *children) with its split feature and depth
Branch(f, ch, stats, depth) ==
    [kind |-> "branch", feature |-> f, children |-> ch, stats |-> stats,
     active |-> FALSE, depth |-> depth]

IsBranch(h, n) == n # None /\ h[n].kind = "branch"
IsLeaf(h, n) == n # None /\ h[n].kind = "leaf"

\* a node object that does not exist yet
NewId(h) == CHOOSE i \in 1..(Cardinality(DOMAIN h) + 1) :
                /\ i \notin DOMAIN h
                /\ \A j \in 1..(i - 1) : j \in DOMAIN h

Put(h, id, node) == [i \in DOMAIN h \cup {id} |-> IF i = id THEN node ELSE h[i]]

ToSet(list) == {list[i] : i \in 1..Len(list)}

RECURSIVE iter_leaves(_, _)
RECURSIVE iter_leaves_of(_, _)
\* node.iter_leaves(): the leaves of the subtree, in children order
iter_leaves(h, n) ==
    IF h[n].kind = "leaf" THEN <<n>> ELSE iter_leaves_of(h, h[n].children)
iter_leaves_of(h, ch) ==
    IF ch = <<>> THEN <<>> ELSE iter_leaves(h, Head(ch)) \o iter_leaves_of(h, Tail(ch))

RECURSIVE Preorder(_, _)
RECURSIVE PreorderOf(_, _)
\* the nodes of the subtree of n, parents first
Preorder(h, n) == <<n>> \o PreorderOf(h, h[n].children)
PreorderOf(h, ch) ==
    IF ch = <<>> THEN <<>> ELSE Preorder(h, Head(ch)) \o PreorderOf(h, Tail(ch))

\* the nodes reachable from r
Reach(h, r) == IF r = None THEN {} ELSE ToSet(Preorder(h, r))

\* objects no longer referenced from the root are reclaimed
Collect(h, r) == [i \in Reach(h, r) |-> h[i]]

\* HTLeaf.calculate_promise(): computed by the growth library from the leaf's statistics
calculate_promise(h, n) == h[n].stats

(***************************************************************************)
(* CompletePruner (complete_pruner.py)                                     *)
(***************************************************************************)
\* feature not in self.tree.important_features
NotImportant(f, imp) == \A i \in 1..Len(imp) : imp[i] # f

\* self._new_leaf(None, parent): the statistics are not handed on
create_new_leaf_empty(h, initial_stats, parent) ==
    Leaf(0, IF parent = None THEN 0 ELSE h[parent].depth + 1)

\* the replacement node is built as a branch without children
create_new_leaf_as_branch(h, initial_stats, parent) ==
    Branch("", <<>>, initial_stats, IF parent = None THEN 0 ELSE h[parent].depth + 1)

\* HoeffdingPruningTree.create_new_leaf -> river _new_leaf(initial_stats, parent)
create_new_leaf(h, initial_stats, parent) ==
    Leaf(initial_stats, IF parent = None THEN 0 ELSE h[parent].depth + 1)

\* parent.children[0] = new_leaf: the child index is dropped
InstallLeafFirst(h, parent, index, new_leaf) ==
    [h EXCEPT ![parent].children = SetItem(@, 0, new_leaf)]

\* parent.children[index] = new_leaf
InstallLeaf(h, parent, index, new_leaf) ==
    [h EXCEPT ![parent].children = SetItem(@, index, new_leaf)]

RECURSIVE CompletePruneSubtree(_, _, _, _, _)
RECURSIVE CompletePruneChildren(_, _, _, _)
\* CompletePruner.prune_subtree(node, parent, index) on the tree T = [heap, root]
CompletePruneSubtree(T, imp, node, parent, index) ==
    IF T.heap[node].kind = "branch"
    THEN IF NotImportant(T.heap[node].feature, imp)
         THEN LET new_leaf == NewId(T.heap)
                  h1 == Put(T.heap, new_leaf,
                            create_new_leaf(T.heap, T.heap[node].stats, parent))
              IN IF parent = None
                 THEN [heap |-> h1, root |-> new_leaf]
                 ELSE [heap |-> InstallLeaf(h1, parent, index, new_leaf),
                       root |-> T.root]
         ELSE CompletePruneChildren(T, imp, node, 0)
    ELSE T
\* the recursion stops after the first child
CompletePruneChildrenFirst(T, imp, node, i) ==
    IF i >= Min(1, Len(T.heap[node].children)) THEN T
    ELSE CompletePruneSubtree(T, imp, T.heap[node].children[1], node, 0)

\* for i, child in enumerate(node.children): self.prune_subtree(child, node, i)
CompletePruneChildren(T, imp, node, i) ==
    IF i >= Len(T.heap[node].children) THEN T
    ELSE CompletePruneChildren(
             CompletePruneSubtree(T, imp, T.heap[node].children[i + 1], node, i),
             imp, node, i + 1)

\* CompletePruner.prune_tree()
CompletePruneTree(T, imp) ==
    IF IsBranch(T.heap, T.root)
    THEN CompletePruneSubtree(T, imp, T.root, None, 0)
    ELSE T

(***************************************************************************)
(* SelectivePruner (selective_pruner.py)                                   *)
(***************************************************************************)
\* an average promise total / count is kept as <<total, count>>
PromiseLeq(p, q) == p[1] * q[2] <= q[1] * p[2]

RECURSIVE SumPromise(_, _)
SumPromise(h, leaves) ==
    IF leaves = <<>> THEN 0
    ELSE calculate_promise(h, Head(leaves)) + SumPromise(h, Tail(leaves))

\* SelectivePruner._calculate_avg_promise(node)
calculate_avg_promise(h, node) ==
    LET leaves == SelectSeq(iter_leaves(h, node), LAMBDA l : h[l].kind = "leaf")
    IN <<SumPromise(h, leaves), Len(leaves)>>

\* the last position that holds the maximum
IndexOfMaxLast(promises) ==
    CHOOSE i \in 1..Len(promises) :
        /\ \A j \in 1..Len(promises) : PromiseLeq(promises[j], promises[i])
        /\ \A j \in (i + 1)..Len(promises) : ~PromiseLeq(promises[i], promises[j])

\* promises.index(max(promises)), as a 1-based position
IndexOfMax(promises) ==
    CHOOSE i \in 1..Len(promises) :
        /\ \A j \in 1..Len(promises) : PromiseLeq(promises[j], promises[i])
        /\ \A j \in 1..(i - 1) : ~PromiseLeq(promises[i], promises[j])

\* SelectivePruner._choose_child(children)
choose_child(h, children) ==
    LET promises == [i \in 1..Len(children) |->
                        IF h[children[i]].kind # "leaf"
                        THEN calculate_avg_promise(h, children[i])
                        ELSE <<calculate_promise(h, children[i]), 1>>]
    IN children[IndexOfMax(promises)]

\* the pruned children are thrown away, the node keeps the old list
InstallChildrenNot(h, node, pruned_children) == h

\* node.children = [] instead of the pruned children
InstallChildrenEmpty(h, node, pruned_children) == [h EXCEPT ![node].children = <<>>]

\* node.children = pruned_children
InstallChildren(h, node, pruned_children) ==
    [h EXCEPT ![node].children = pruned_children]

RECURSIVE SelectivePruneSubtree(_, _, _)
RECURSIVE SelectivePruneChildren(_, _, _, _)
\* a branch that is not important is replaced by a new leaf with its statistics
SelectivePruneSubtreeNewLeaf(h, imp, node) ==
    LET pc == SelectivePruneChildren(h, imp, h[node].children, <<>>)
        id == NewId(pc.heap)
    IN IF NotImportant(h[node].feature, imp)
       THEN [heap |-> Put(pc.heap, id, Leaf(h[node].stats, h[node].depth)), node |-> id]
       ELSE [heap |-> InstallChildren(pc.heap, node, pc.list), node |-> node]

\* SelectivePruner.prune_subtree(node): [heap, node] = the heap afterwards and the
\* node returned
SelectivePruneSubtree(h, imp, node) ==
    LET pc == SelectivePruneChildren(h, imp, h[node].children, <<>>)
    IN IF NotImportant(h[node].feature, imp)
       THEN [heap |-> pc.heap, node |-> choose_child(pc.heap, pc.list)]
       ELSE [heap |-> InstallChildren(pc.heap, node, pc.list), node |-> node]
\* pruned_children = node.children: the children are taken as they are
SelectivePruneChildrenShallow(h, imp, ch, done) == [heap |-> h, list |-> done \o ch]

\* pruned_children = [self.prune_subtree(child) if not isinstance(child, HTLeaf)
\*                    else child for child in node.children]
SelectivePruneChildren(h, imp, ch, done) ==
    IF ch = <<>> THEN [heap |-> h, list |-> done]
    ELSE IF h[Head(ch)].kind # "leaf"
         THEN LET r == SelectivePruneSubtree(h, imp, Head(ch))
              IN SelectivePruneChildren(r.heap, imp, Tail(ch), Append(done, r.node))
         ELSE SelectivePruneChildren(h, imp, Tail(ch), Append(done, Head(ch)))

\* SelectivePruner.prune_tree()
SelectivePruneTree(T, imp) ==
    IF IsBranch(T.heap, T.root)
    THEN LET r == SelectivePruneSubtree(T.heap, imp, T.root)
         IN [heap |-> r.heap, root |-> r.node]
    ELSE T

\* self.pruner.prune_tree()
prune_tree(T, imp, p) ==
    IF p = "selective" THEN SelectivePruneTree(T, imp) ELSE CompletePruneTree(T, imp)

(***************************************************************************)
(* The external tree-growth routine (HoeffdingTreeClassifier.learn_one of   *)
(* the river library, called by HoeffdingPruningTree.learn_one)            *)
(***************************************************************************)
\* the slot that holds n: <<parent, index>>, or <<None, 0>> for the root
SlotOf(h, r, n) ==
    IF n = r THEN <<None, 0>>
    ELSE CHOOSE s \in (DOMAIN h) \X (0..MaxNodes) :
             /\ s[2] < Len(h[s[1]].children)
             /\ h[s[1]].children[s[2] + 1] = n

\* node objects have no names of their own: after the growth routine has run the
\* reachable nodes are numbered in preorder
Renumber(h, r) ==
    LET order == Preorder(h, r)
        pos(n) == CHOOSE k \in 1..Len(order) : order[k] = n
    IN [k \in 1..Len(order) |->
           [h[order[k]] EXCEPT !.children = [i \in 1..Len(@) |-> pos(@[i])]]]

\* what one call of the growth routine can do to the tree T = [heap, root, ...]:
\* the leaf the instance is sorted to learns it (its statistics become s, or stay
\* what they are: "pass", the same tree whichever leaf it is, so one leaf stands
\* for all), or is deactivated, or is split on feature f into k new
\* leaves; ops are the kinds of outcome a specification follows, feats the features
\* the observations carry
GrowChoices(T, ops, feats) ==
    IF T.root = None
    THEN {[op |-> "learn", leaf |-> None, stats |-> s, feature |-> "", arity |-> 0] :
              s \in IF "learn" \in ops THEN Stats ELSE {0}}
    ELSE LET leaves == ToSet(iter_leaves(T.heap, T.root))
             active == {l \in leaves : T.heap[l].active}
             nodes  == Cardinality(Reach(T.heap, T.root))
             all ==
                {[op |-> "learn", leaf |-> l, stats |-> s, feature |-> "", arity |-> 0] :
                     l \in leaves, s \in Stats}
                \cup
                {[op |-> "pass", leaf |-> l, stats |-> T.heap[l].stats,
                  feature |-> "", arity |-> 0] : l \in {iter_leaves(T.heap, T.root)[1]}}
                \cup
                {[op |-> "deactivate", leaf |-> l, stats |-> T.heap[l].stats,
                  feature |-> "", arity |-> 0] : l \in active}
                \cup
                {c \in [op : {"split"}, leaf : active, stats : {0}, feature : feats,
                        arity : Arities] :
                     nodes + c.arity <= MaxNodes /\ T.heap[c.leaf].depth < MaxDepth}
         IN {c \in all : c.op \in ops}

\* the pruning specification follows the statistics the leaves gather, the
\* controller specification follows which leaves are active
PruneOps == {"learn", "split"}
StepOps == {"pass", "deactivate", "split"}

\* the new leaves of a split: children of the leaf being split, one level deeper
RECURSIVE NewLeaves(_, _, _)
NewLeaves(h, k, depth) ==
    IF k = 0 THEN [heap |-> h, list |-> <<>>]
    ELSE LET id == NewId(h)
             r  == NewLeaves(Put(h, id, Leaf(0, depth)), k - 1, depth)
         IN [heap |-> r.heap, list |-> <<id>> \o r.list]

GrowTree(T, c) ==
    LET G ==
        IF T.root = None
        THEN \* self._root = self._new_leaf(); self._n_active_leaves = 1
             [heap |-> Put(T.heap, NewId(T.heap), Leaf(c.stats, 0)),
              root |-> NewId(T.heap), na |-> 1, ni |-> T.ni]
        ELSE IF c.op \in {"learn", "pass"}
        THEN [T EXCEPT !.heap[c.leaf].stats = c.stats]
        ELSE IF c.op = "deactivate"
        THEN \* node.deactivate(); one active leaf less, one inactive leaf more
             [T EXCEPT !.heap[c.leaf].active = FALSE, !.na = @ - 1, !.ni = @ + 1]
        ELSE \* _attempt_to_split: the leaf is replaced by a branch over new leaves
             LET leaf == T.heap[c.leaf]
                 slot == SlotOf(T.heap, T.root, c.leaf)
                 nl   == NewLeaves(T.heap, c.arity, leaf.depth + 1)
                 b    == NewId(nl.heap)
                 h1   == Put(nl.heap, b, Branch(c.feature, nl.list, leaf.stats, leaf.depth))
             IN [heap |-> IF slot[1] = None THEN h1
                          ELSE [h1 EXCEPT ![slot[1]].children = SetItem(@, slot[2], b)],
                 root |-> IF slot[1] = None THEN b ELSE T.root,
                 na   |-> T.na - 1 + c.arity,
                 ni   |-> T.ni]
    IN [heap |-> Renumber(G.heap, G.root), root |-> 1, na |-> G.na, ni |-> G.ni]

(***************************************************************************)
(* HoeffdingPruningTree (hoeffding_pruning_tree.py)                        *)
(***************************************************************************)
\* importance values and the threshold, in units of the threshold
Values == 0..MaxValue
ImportanceThreshold == 1

\* the mapping before the feed has produced an estimate
NoValues == <<>>

Count(S) == Cardinality(S)

\* the counts are left as the growth routine had them
update_leaf_counts_stale(h, r) == <<n_active_leaves, n_inactive_leaves>>

\* HoeffdingPruningTree._update_leaf_counts(): <<active, inactive>>
update_leaf_counts(h, r) ==
    LET leaves == iter_leaves(h, r)
    IN <<Count({i \in 1..Len(leaves) : h[leaves[i]].active}),
         Count({i \in 1..Len(leaves) : ~h[leaves[i]].active})>>

\* value > self.importance_threshold
ImportantFeaturesStrict(v, names) ==
    IF \E k \in DOMAIN v : v[k] > ImportanceThreshold
    THEN SelectSeq(names, LAMBDA k : k \in DOMAIN v /\ v[k] > ImportanceThreshold)
    ELSE names

\* the second half of _update_ipfi: the important features for the mapping v
ImportantFeatures(v, names) ==
    IF \E k \in DOMAIN v : v[k] >= ImportanceThreshold
    THEN SelectSeq(names, LAMBDA k : k \in DOMAIN v /\ v[k] >= ImportanceThreshold)
    ELSE names

\* the remembered set is never refreshed
RememberImportantStale(imp, last) == last

\* self.last_important_features = set(self.important_features)
RememberImportant(imp, last) == ToSet(imp)

\* history entries of a prune_tree() call that started on T0 and ended on T1
PruneEntries(T0, T1) ==
    IF T1 = T0 THEN <<"prune_tree">> ELSE <<"prune_tree", "tree_changed">>

\* the history entries of the last call, when it was a direct prune_tree() call
LastPrune(log) ==
    IF log = <<>> THEN <<>>
    ELSE IF log[Len(log)] = "prune_tree" THEN <<"prune_tree">>
    ELSE IF log[Len(log)] = "tree_changed" THEN <<"prune_tree", "tree_changed">>
    ELSE <<>>

NoSnapshot == [heap |-> <<>>, root |-> None]

\* the growth routine runs before the importance feed is updated
SubStepsGrowFirst(first, prune, entries) ==
    <<"learn">>
    \o (IF first THEN <<"create_ipfi">> ELSE <<>>)
    \o <<"update_ipfi">>
    \o (IF prune THEN entries \o <<"update_leaf_counts">> ELSE <<>>)

\* the statements of learn_one() in the order they run: _create_ipfi() on the first
\* call, _update_ipfi(), the guarded prune_tree() and _update_leaf_counts(), and
\* super().learn_one() last
SubSteps(first, prune, entries) ==
    (IF first THEN <<"create_ipfi">> ELSE <<>>)
    \o <<"update_ipfi">>
    \o (IF prune THEN entries \o <<"update_leaf_counts">> ELSE <<>>)
    \o <<"learn">>

\* self.feature_names = list(x.keys()) runs on every call
capture_feature_names_always(first, keys, names) == keys

\* if self.incremental_pfi is None: self.feature_names = list(x.keys())
capture_feature_names(first, keys, names) == IF first THEN keys ELSE names

\* HoeffdingPruningTree.learn_one(x, y); v is the mapping the importance feed holds
\* after explain_one(x, y); the growth routine's part is chosen among GrowChoices
LearnOne(v, keys) ==
    LET first == ~incremental_pfi
        names == capture_feature_names(first, keys, feature_names)
        last0 == IF first THEN ToSet(names) ELSE last_important_features
        imp   == ImportantFeatures(v, names)
        prune == last0 # ToSet(imp)
        T0    == [heap |-> heap, root |-> root]
    IN /\ pruner # "none"
       /\ first <=> keys = InstanceKeys
       /\ v = NoValues <=> first
       /\ incremental_pfi' = TRUE
       /\ feature_names' = names
       /\ importance_values' = v
       /\ important_features' = imp
       /\ last_important_features' = RememberImportant(imp, last0)
       /\ \E T1 \in {IF prune THEN prune_tree(T0, imp, pruner) ELSE T0} :
          \E cnt \in {IF prune THEN update_leaf_counts(T1.heap, T1.root)
                               ELSE <<n_active_leaves, n_inactive_leaves>>} :
          \E T2 \in {[heap |-> Collect(T1.heap, T1.root), root |-> T1.root,
                      na |-> cnt[1], ni |-> cnt[2]]} :
          \E c \in GrowChoices(T2, StepOps, ToSet(keys)) :
          \E G \in {GrowTree(T2, c)} :
                /\ heap' = G.heap
                /\ root' = G.root
                /\ n_active_leaves' = G.na
                /\ n_inactive_leaves' = G.ni
                /\ calls' = SubSteps(first, prune, PruneEntries(T0, T1))
       /\ pre' = NoSnapshot
       /\ UNCHANGED <<pruner, pruner_arg, init_error>>
       /\ UNCHANGED <<resVars, impVars>>

\* the exception is raised again after the failing sub-step was run a second time
PropagateAfterRetry(steps) == steps \o <<steps[Len(steps)], "raise">>

\* learn_one() has no except clause: an exception leaves it at the failing sub-step
Propagate(steps) == steps \o <<"raise">>

\* learn_one(x, y) in which self.incremental_pfi.explain_one(x, y) raises (an
\* instance the model function cannot score): the statements before it have run
UpdateIpfiFails(keys) ==
    LET first == ~incremental_pfi
        names == capture_feature_names(first, keys, feature_names)
    IN /\ pruner # "none"
       /\ first <=> keys = InstanceKeys
       /\ incremental_pfi' = TRUE
       /\ feature_names' = names
       /\ important_features' = IF first THEN names ELSE important_features
       /\ last_important_features' = IF first THEN ToSet(names) ELSE last_important_features
       /\ calls' = Propagate((IF first THEN <<"create_ipfi">> ELSE <<>>) \o <<"update_ipfi">>)
       /\ pre' = NoSnapshot
       /\ UNCHANGED <<heap, root, n_active_leaves, n_inactive_leaves, importance_values>>
       /\ UNCHANGED <<pruner, pruner_arg, init_error>>
       /\ UNCHANGED <<resVars, impVars>>

\* leaves = [leaf for leaf in self._root.iter_leaves()] raises AttributeError when
\* self._root is None
update_leaf_counts_raises(h, r) == r = None

\* learn_one(x, y) in which self._update_leaf_counts() raises: the importance feed,
\* a black box to the controller, has returned the mapping v, the important-feature
\* set has changed and prune_tree() has returned
LeafCountsFail(v, keys) ==
    LET first == ~incremental_pfi
        names == capture_feature_names(first, keys, feature_names)
        last0 == IF first THEN ToSet(names) ELSE last_important_features
        imp   == ImportantFeatures(v, names)
        prune == last0 # ToSet(imp)
        T0    == [heap |-> heap, root |-> root]
    IN /\ pruner # "none"
       /\ first <=> keys = InstanceKeys
       /\ prune
       /\ \E T1 \in {prune_tree(T0, imp, pruner)} :
             /\ update_leaf_counts_raises(T1.heap, T1.root)
             /\ heap' = Collect(T1.heap, T1.root)
             /\ root' = T1.root
             /\ calls' = Propagate((IF first THEN <<"create_ipfi">> ELSE <<>>)
                                   \o <<"update_ipfi">> \o PruneEntries(T0, T1)
                                   \o <<"update_leaf_counts">>)
       /\ incremental_pfi' = TRUE
       /\ feature_names' = names
       /\ importance_values' = v
       /\ important_features' = imp
       /\ last_important_features' = last0
       /\ pre' = T0
       /\ UNCHANGED <<n_active_leaves, n_inactive_leaves>>
       /\ UNCHANGED <<pruner, pruner_arg, init_error>>
       /\ UNCHANGED <<resVars, impVars>>

\* learn_one(x, y) in which super().learn_one(x, y) raises before it has changed the
\* tree: the importance update, the pruning and the recount have run
GrowthFails(v, keys) ==
    LET first == ~incremental_pfi
        names == capture_feature_names(first, keys, feature_names)
        last0 == IF first THEN ToSet(names) ELSE last_important_features
        imp   == ImportantFeatures(v, names)
        prune == last0 # ToSet(imp)
        T0    == [heap |-> heap, root |-> root]
    IN /\ pruner # "none"
       /\ first <=> keys = InstanceKeys
       /\ v = NoValues <=> first
       /\ incremental_pfi' = TRUE
       /\ feature_names' = names
       /\ importance_values' = v
       /\ important_features' = imp
       /\ last_important_features' = RememberImportant(imp, last0)
       /\ \E T1 \in {IF prune THEN prune_tree(T0, imp, pruner) ELSE T0} :
          \E cnt \in {IF prune THEN update_leaf_counts(T1.heap, T1.root)
                               ELSE <<n_active_leaves, n_inactive_leaves>>} :
                /\ heap' = Collect(T1.heap, T1.root)
                /\ root' = T1.root
                /\ n_active_leaves' = cnt[1]
                /\ n_inactive_leaves' = cnt[2]
                /\ calls' = Propagate(SubSteps(first, prune, PruneEntries(T0, T1)))
       /\ pre' = T0
       /\ UNCHANGED <<pruner, pruner_arg, init_error>>
       /\ UNCHANGED <<resVars, impVars>>

\* the growth routine alone
GrowStep ==
    /\ \E c \in GrowChoices([heap |-> heap, root |-> root], PruneOps, Features) :
          LET G == GrowTree([heap |-> heap, root |-> root,
                             na |-> n_active_leaves, ni |-> n_inactive_leaves], c)
          IN /\ heap' = G.heap
             /\ root' = G.root
             /\ n_active_leaves' = G.na
             /\ n_inactive_leaves' = G.ni
    /\ calls' = <<"learn">>
    /\ pre' = NoSnapshot
    /\ UNCHANGED <<incremental_pfi, feature_names, important_features,
                   last_important_features, importance_values, pruner,
                   pruner_arg, init_error>>
    /\ UNCHANGED <<resVars, impVars>>

\* self.pruner.prune_tree(); self._update_leaf_counts()  on a tree that has a root
PruneStep ==
    /\ root # None
    /\ \E T0 \in {[heap |-> heap, root |-> root]} :
       \E T1 \in {prune_tree(T0, important_features, pruner)} :
       \E cnt \in {update_leaf_counts(T1.heap, T1.root)} :
          /\ heap' = Collect(T1.heap, T1.root)
          /\ root' = T1.root
          /\ n_active_leaves' = cnt[1]
          /\ n_inactive_leaves' = cnt[2]
          /\ pre' = T0
          /\ calls' = LastPrune(calls) \o PruneEntries(T0, T1)
    /\ UNCHANGED <<incremental_pfi, feature_names, important_features,
                   last_important_features, importance_values, pruner,
                   pruner_arg, init_error>>
    /\ UNCHANGED <<resVars, impVars>>

\* the values the constructor's `pruner` argument takes: the two valid kinds, a kind
\* there is no pruner for and a valid kind in another spelling
PrunerArgs == {"selective", "complete", "greedy", "Complete"}

NoError == [type |-> "none", invalid |-> "", valid |-> {}]

\* an unknown kind gets the default pruner
set_pruner_default(p) ==
    IF p = "selective"
    THEN [pruner |-> "selective", error |-> NoError]
    ELSE [pruner |-> "complete", error |-> NoError]

\* _set_pruner: the pruner object, or
\* ValueError("Invalid pruner type: {pruner}. Valid options are 'selective' or 'complete'.")
set_pruner(p) ==
    IF p = "selective"
    THEN [pruner |-> "selective", error |-> NoError]
    ELSE IF p = "complete"
         THEN [pruner |-> "complete", error |-> NoError]
         ELSE [pruner |-> "none",
               error  |-> [type |-> "ValueError", invalid |-> p,
                           valid |-> {"selective", "complete"}]]

\* HoeffdingPruningTree.__init__(pruner=p): the object, or no object and the error
TreeInit ==
    /\ heap = <<>>
    /\ root = None
    /\ n_active_leaves = 0
    /\ n_inactive_leaves = 0
    /\ incremental_pfi = FALSE
    /\ feature_names = <<>>
    /\ important_features = <<>>
    /\ last_important_features = {}
    /\ importance_values = NoValues
    /\ pruner_arg \in PrunerArgs
    /\ pruner = set_pruner(pruner_arg).pruner
    /\ init_error = set_pruner(pruner_arg).error
    /\ pre = NoSnapshot
    /\ calls = <<>>

\* a controller that has seen its first observations and holds some important-feature
\* list, over a tree that is still to be grown; the mapping with every value at the
\* threshold gives the list of the mapping with every value below it
PruneInit ==
    /\ heap = <<>>
    /\ root = None
    /\ n_active_leaves = 0
    /\ n_inactive_leaves = 0
    /\ incremental_pfi = TRUE
    /\ feature_names = InstanceKeys
    /\ \E v \in [Features -> {0, ImportanceThreshold}] :
          /\ \E f \in Features : v[f] < ImportanceThreshold
          /\ importance_values = v
          /\ important_features = ImportantFeatures(v, InstanceKeys)
    /\ last_important_features = ToSet(important_features)
    /\ pruner_arg \in {"selective", "complete"}
    /\ pruner = set_pruner(pruner_arg).pruner
    /\ init_error = set_pruner(pruner_arg).error
    /\ pre = NoSnapshot
    /\ calls = <<>>

\* no tree object constructed
TreeIdle ==
    /\ heap = <<>>
    /\ root = None
    /\ n_active_leaves = 0
    /\ n_inactive_leaves = 0
    /\ incremental_pfi = FALSE
    /\ feature_names = <<>>
    /\ important_features = <<>>
    /\ last_important_features = {}
    /\ importance_values = NoValues
    /\ pruner = "none"
    /\ pruner_arg = "none"
    /\ init_error = NoError
    /\ pre = NoSnapshot
    /\ calls = <<>>

(***************************************************************************)
(* MarginalImputer                                                         *)
(***************************************************************************)
\* the feature dict of stream item i: every value carries its feature and its item,
\* so that a value tells which stored entry it was read from
XOf(i) == [f \in Features |-> <<f, i>>]

\* the instance x_i that impute() is asked about: not one of the stored items
ExplainedItem == XOf(0)

\* features, _ = storage_object.get_data()
get_data == [k \in 1..Len(storage_x) |-> XOf(storage_x[k])]

\* the feature subsets impute() is called with, in the caller's order
FeatureSubsets == {<<>>, <<"A">>, <<"B">>, <<"A", "B">>, <<"B", "A">>}

\* rng.randint(n) raises ValueError unless n > 0
RandintFails(n) == n <= 0

\* the indices rng.randint(n) can return (one placeholder where it raises)
RandintRange(n) == IF n <= 0 THEN {0} ELSE 0..(n - 1)

\* number of randint calls one sample makes
DrawsPerSample(strategy, feature_subset) ==
    IF strategy = "joint" THEN 1 ELSE Len(feature_subset)

NoSample == [error |-> TRUE, values |-> <<>>, draws |-> <<>>]

\* one index per feature, as _sample_product_marginals draws them
SampleMarginalsPerFeature(features, feature_subset, idxs) ==
    IF RandintFails(Len(features))
    THEN NoSample
    ELSE [error  |-> FALSE,
          values |-> [f \in ToSet(feature_subset) |->
                        LET k == CHOOSE j \in 1..Len(feature_subset) : feature_subset[j] = f
                        IN features[((idxs[1] + k - 1) % Len(features)) + 1][f]],
          draws  |-> idxs]

\* an empty reservoir yields no replacement values instead of an error
SampleMarginalsGuarded(features, feature_subset, idxs) ==
    IF RandintFails(Len(features))
    THEN [error |-> FALSE, values |-> <<>>, draws |-> <<>>]
    ELSE [error  |-> FALSE,
          values |-> [f \in ToSet(feature_subset) |-> features[idxs[1] + 1][f]],
          draws  |-> <<idxs[1]>>]

\* _sample_marginals: one rand_idx, every value of feature_subset from features[rand_idx]
SampleMarginals(features, feature_subset, idxs) ==
    IF RandintFails(Len(features))
    THEN NoSample
    ELSE LET rand_idx == idxs[1]
             sampled_instance == features[rand_idx + 1]
         IN [error  |-> FALSE,
             values |-> [f \in ToSet(feature_subset) |-> sampled_instance[f]],
             draws  |-> <<rand_idx>>]

\* the first index reused for every feature
SampleProductMarginalsOneDraw(features, feature_subset, idxs) ==
    IF feature_subset = <<>>
    THEN [error |-> FALSE, values |-> <<>>, draws |-> <<>>]
    ELSE IF RandintFails(Len(features))
         THEN NoSample
         ELSE [error  |-> FALSE,
               values |-> [f \in ToSet(feature_subset) |-> features[idxs[1] + 1][f]],
               draws  |-> idxs]

\* _sample_product_marginals: for the k-th feature of feature_subset its own rand_idx,
\* and only that feature's value of features[rand_idx]
SampleProductMarginals(features, feature_subset, idxs) ==
    IF feature_subset = <<>>
    THEN [error |-> FALSE, values |-> <<>>, draws |-> <<>>]
    ELSE IF RandintFails(Len(features))
         THEN NoSample
         ELSE [error  |-> FALSE,
               values |-> [f \in ToSet(feature_subset) |->
                             LET k == CHOOSE j \in 1..Len(feature_subset) :
                                         feature_subset[j] = f
                             IN features[idxs[k] + 1][f]],
               draws  |-> idxs]

\* _sample
Sample(features, feature_subset, strategy, idxs) ==
    IF strategy = "joint"
    THEN SampleMarginals(features, feature_subset, idxs)
    ELSE SampleProductMarginals(features, feature_subset, idxs)

\* {**sampled_values, **x_i}: the real values win
MergeInstanceWins(x_i, sampled_values) ==
    [f \in DOMAIN x_i \cup DOMAIN sampled_values |->
        IF f \in DOMAIN x_i THEN x_i[f] ELSE sampled_values[f]]

\* {**x_i, **sampled_values}
Merge(x_i, sampled_values) ==
    [f \in DOMAIN x_i \cup DOMAIN sampled_values |->
        IF f \in DOMAIN sampled_values THEN sampled_values[f] ELSE x_i[f]]

\* self.model_function(instance): the externally supplied function, applied
model_function(instance) == [output_of |-> instance]

NoCall == [feature_subset |-> <<>>, n_samples |-> 0]

ImputeStart == [error |-> FALSE, predictions |-> <<>>, evaluated |-> <<>>, rand_idxs |-> <<>>]

\* the loop of impute(): idxs[k] are the indices randint returns in sample k
RECURSIVE ImputeLoop(_, _, _, _, _, _, _)
ImputeLoop(features, feature_subset, x_i, strategy, idxs, k, acc) ==
    IF k > Len(idxs)
    THEN acc
    ELSE LET sampled == Sample(features, feature_subset, strategy, idxs[k])
         IN IF sampled.error
            THEN [acc EXCEPT !.error = TRUE, !.predictions = <<>>]
            ELSE LET instance == Merge(x_i, sampled.values)
                 IN ImputeLoop(features, feature_subset, x_i, strategy, idxs, k + 1,
                               [error       |-> FALSE,
                                predictions |-> Append(acc.predictions,
                                                       model_function(instance)),
                                evaluated   |-> Append(acc.evaluated, instance),
                                rand_idxs   |-> Append(acc.rand_idxs, sampled.draws)])

\* MarginalImputer.impute(feature_subset, x_i, n_samples)
Impute(feature_subset, n_samples) ==
    /\ sampling_strategy # "none"
    /\ \E features \in {get_data} :
       \E idxs \in [1..n_samples ->
                      [1..DrawsPerSample(sampling_strategy, feature_subset) ->
                          RandintRange(Len(features))]] :
       \E run \in {ImputeLoop(features, feature_subset, ExplainedItem, sampling_strategy,
                              idxs, 1, ImputeStart)} :
          /\ predictions' = run.predictions
          /\ imp_error' = run.error
          /\ evaluated' = run.evaluated
          /\ rand_idxs' = run.rand_idxs
    /\ imp_called' = TRUE
    /\ imp_args' = [feature_subset |-> feature_subset, n_samples |-> n_samples]
    /\ UNCHANGED <<sampling_strategy, resVars, treeVars>>

\* MarginalImputer.__init__
ImpInit ==
    /\ sampling_strategy \in {"joint", "product"}
    /\ imp_called = FALSE
    /\ imp_args = NoCall
    /\ predictions = <<>>
    /\ imp_error = FALSE
    /\ evaluated = <<>>
    /\ rand_idxs = <<>>

\* no imputer object constructed
ImpIdle ==
    /\ sampling_strategy = "none"
    /\ imp_called = FALSE
    /\ imp_args = NoCall
    /\ predictions = <<>>
    /\ imp_error = FALSE
    /\ evaluated = <<>>
    /\ rand_idxs = <<>>

ResHistoryInit ==
    /\ n_updates = 0
    /\ n_repl = 0
    /\ random_float = NoDraw
    /\ ref_R = <<>>
    /\ ref_W = algo_wt
    /\ ref_next = algo_l_counter

ResInit == (GeometricInit \/ UniformInit) /\ ResHistoryInit

\* no reservoir object constructed
ResIdle ==
    /\ kind = "none"
    /\ size = 0
    /\ store_targets = FALSE
    /\ constant_probability = <<0, 1>>
    /\ storage_x = <<>>
    /\ storage_y = <<>>
    /\ stored_samples = 0
    /\ algo_wt = 0
    /\ algo_l_counter = 0
    /\ ResHistoryInit

(***************************************************************************)
(* Specifications                                                          *)
(***************************************************************************)
InitRes == ResInit /\ TreeIdle /\ ImpIdle

NextRes ==
    \/ \E r \in UnitDraws, i \in 0..(MaxSize - 1) : GeometricUpdate(r, i)
    \/ \E d \in ReplDraws : UniformUpdate(d)

SpecRes == InitRes /\ [][NextRes]_vars

\* an imputer over the reservoir IPFI constructs (no targets, default probability)
\* that is filled first and sampled afterwards; impute() leaves the reservoir as it
\* is, so one call per behaviour shows every outcome a call can have
InitImp ==
    /\ ResInit
    /\ store_targets = FALSE
    /\ kind = "geometric" => constant_probability = DefaultProbability(size)
    /\ TreeIdle
    /\ ImpInit

NextImp ==
    \/ /\ ~imp_called
       /\ n_updates <= size
       /\ \/ \E r \in UnitDraws, i \in 0..(MaxSize - 1) : GeometricUpdate(r, i)
          \/ \E d \in ReplDraws : UniformUpdate(d)
    \/ /\ ~imp_called
       /\ \E feature_subset \in FeatureSubsets, n_samples \in 0..MaxSamples :
             Impute(feature_subset, n_samples)

SpecImp == InitImp /\ [][NextImp]_vars

InitPrune == PruneInit /\ ResIdle /\ ImpIdle

NextPrune ==
    \/ GrowStep
    \/ PruneStep

SpecPrune == InitPrune /\ [][NextPrune]_vars

Next == \E v \in [Features -> Values] \cup {NoValues}, keys \in KeyLists : LearnOne(v, keys)

InitFail == TreeInit /\ ResIdle /\ ImpIdle

\* importance mappings with every value below or at the threshold
ThresholdValues == [Features -> {0, ImportanceThreshold}]

\* the controller with observations whose sub-steps can raise; a behaviour ends at
\* the first exception; which sub-step fails does not depend on how far a value
\* lies above the threshold
NextFail ==
    \/ /\ "raise" \notin ToSet(calls)
       /\ \E v \in ThresholdValues \cup {NoValues}, keys \in KeyLists : LearnOne(v, keys)
    \/ /\ "raise" \notin ToSet(calls)
       /\ \E keys \in KeyLists : UpdateIpfiFails(keys)
    \/ /\ "raise" \notin ToSet(calls)
       /\ \E v \in ThresholdValues \cup {NoValues}, keys \in KeyLists :
             GrowthFails(v, keys)
    \/ /\ "raise" \notin ToSet(calls)
       /\ \E v \in ThresholdValues, keys \in KeyLists : LeafCountsFail(v, keys)

SpecFail == InitFail /\ [][NextFail]_vars

Init == TreeInit /\ ResIdle /\ ImpIdle

Spec == Init /\ [][Next]_vars

(***************************************************************************)
(* Claims about the reservoirs (SpecRes)                                   *)
(***************************************************************************)
\* C1: for both reservoir variants, after any sequence of update() calls the number
\* of stored feature vectors is at most the capacity and equals
\* min(capacity, number of update calls made so far).
C1_ReservoirCapacity ==
    kind # "none" =>
        /\ Len(storage_x) <= size
        /\ Len(storage_x) = Min(size, n_updates)

\* a full reservoir that has seen more items than it holds and has replaced one
C1_Witness == n_updates > size /\ Len(storage_x) = size /\ n_repl >= 1

\* C10: UniformReservoirStorage.update follows reference Algorithm L: on the same
\* stream and the same draws it appends the first `size` items and thereafter
\* replaces at the same stream indices and in the same slots, so the two reservoirs
\* hold the same items in the same slots after every update.
C10_FollowsAlgorithmL == kind = "uniform" => storage_x = ref_R

\* C13: GeometricReservoirStorage.update appends the new item while the buffer holds
\* fewer than `size` items; once full, the item is included if and only if the drawn
\* value is below p (draw < p): then exactly one slot in [0, size) is overwritten
\* with the new item and every other slot is unchanged, and otherwise the buffer is
\* unchanged.
C13_GeometricBelowP ==
    [][(kind = "geometric" /\ n_updates' = n_updates + 1) =>
          LET x == n_updates + 1
              p == constant_probability
          IN IF Len(storage_x) < size
             THEN storage_x' = Append(storage_x, x)
             ELSE IF random_float' * p[2] < p[1] * GridDen
                  THEN \E i \in 1..size : storage_x' = [storage_x EXCEPT ![i] = x]
                  ELSE storage_x' = storage_x]_vars

(***************************************************************************)
(* Claims about the imputer (SpecImp)                                      *)
(***************************************************************************)
\* the last impute() call returned
Returned == imp_called /\ ~imp_error

\* the stored item a value was read from
ItemOf(value) == value[2]

\* C14: impute(feature_subset, instance, n_samples) returns exactly n_samples model
\* outputs; each is the model function applied to an instance that has, for every
\* feature of feature_subset, the value of an entry stored in the reservoir and, for
\* every other feature of `instance`, the real value of `instance`.
C14_ImputeMergesSamples ==
    Returned =>
        /\ Len(predictions) = imp_args.n_samples
        /\ Len(evaluated) = imp_args.n_samples
        /\ \A k \in 1..Len(predictions) :
              /\ predictions[k] = model_function(evaluated[k])
              /\ DOMAIN evaluated[k] = DOMAIN ExplainedItem
              /\ \A f \in DOMAIN evaluated[k] :
                    IF f \in ToSet(imp_args.feature_subset)
                    THEN \E j \in 1..Len(storage_x) : evaluated[k][f] = XOf(storage_x[j])[f]
                    ELSE evaluated[k][f] = ExplainedItem[f]

\* two samples returned over a reservoir of two entries, one feature replaced and one kept
C14_Witness ==
    /\ Returned
    /\ imp_args = [feature_subset |-> <<"A">>, n_samples |-> 2]
    /\ Len(storage_x) = 2
    /\ ItemOf(evaluated[1]["A"]) # ItemOf(evaluated[2]["A"])

\* C15: with the 'joint' strategy one index is drawn per sample and, within a sample,
\* all replacement values of feature_subset come from that one stored entry; different
\* samples of one call may use different entries.
C15_JointOneEntry ==
    (Returned /\ sampling_strategy = "joint") =>
        \A k \in 1..Len(evaluated) :
            /\ Len(rand_idxs[k]) = 1
            /\ \A f \in ToSet(imp_args.feature_subset) :
                  evaluated[k][f] = XOf(storage_x[rand_idxs[k][1] + 1])[f]

\* a joint call over two features whose two samples read two different entries
C15_Witness ==
    /\ Returned
    /\ sampling_strategy = "joint"
    /\ Len(imp_args.feature_subset) = 2
    /\ imp_args.n_samples = 2
    /\ ItemOf(evaluated[1]["A"]) = ItemOf(evaluated[1]["B"])
    /\ ItemOf(evaluated[1]["A"]) # ItemOf(evaluated[2]["A"])

\* C16: with the product-of-marginals strategy every feature of feature_subset gets its
\* value from its own drawn entry: one index per feature, in feature_subset order, and
\* only that one feature's value is taken from the entry drawn for it.
C16_ProductOwnEntry ==
    (Returned /\ sampling_strategy = "product") =>
        \A k \in 1..Len(evaluated) :
            /\ Len(rand_idxs[k]) = Len(imp_args.feature_subset)
            /\ \A j \in 1..Len(imp_args.feature_subset) :
                  LET f == imp_args.feature_subset[j]
                  IN evaluated[k][f] = XOf(storage_x[rand_idxs[k][j] + 1])[f]
            /\ \A f \in DOMAIN evaluated[k] \ ToSet(imp_args.feature_subset) :
                  evaluated[k][f] = ExplainedItem[f]

\* a product call whose sample reads its two features from two different entries
C16_Witness ==
    /\ Returned
    /\ sampling_strategy = "product"
    /\ imp_args.feature_subset = <<"B", "A">>
    /\ imp_args.n_samples >= 1
    /\ ItemOf(evaluated[1]["A"]) # ItemOf(evaluated[1]["B"])
    /\ rand_idxs[1][1] # rand_idxs[1][2]

\* C17 as stated: impute with n_samples >= 1 over a reservoir without entries fails
\* under either sampling strategy: nothing is returned and the model function is not
\* evaluated.
C17_EmptyReservoirAlwaysFails ==
    (imp_called /\ imp_args.n_samples >= 1 /\ Len(storage_x) = 0) =>
        /\ imp_error
        /\ predictions = <<>>
        /\ evaluated = <<>>

\* C17 amended: impute with n_samples >= 1 over a reservoir without entries fails,
\* returning nothing and evaluating nothing, whenever a sample draws an index: under
\* the joint strategy always, under the product strategy when feature_subset is not
\* empty. Under the product strategy with an empty feature_subset no index is drawn
\* and the call returns n_samples outputs of the model on the unchanged instance.
C17_EmptyReservoirFailsOnDraw ==
    (imp_called /\ imp_args.n_samples >= 1 /\ Len(storage_x) = 0) =>
        IF sampling_strategy = "joint" \/ imp_args.feature_subset # <<>>
        THEN /\ imp_error
             /\ predictions = <<>>
             /\ evaluated = <<>>
        ELSE /\ ~imp_error
             /\ predictions = [k \in 1..imp_args.n_samples |->
                                  model_function(ExplainedItem)]

\* a joint call for one sample and no feature on an empty reservoir, which raised
C17_Witness ==
    /\ imp_called
    /\ sampling_strategy = "joint"
    /\ imp_args = [feature_subset |-> <<>>, n_samples |-> 1]
    /\ Len(storage_x) = 0
    /\ imp_error


(***************************************************************************)
(* Claims about the controller (Spec)                                      *)
(***************************************************************************)
\* C18: constructing HoeffdingPruningTree with a pruner kind other than 'selective'
\* or 'complete' fails with an error that names the invalid value and the two valid
\* options; no object is produced, so no observation is ever processed.
C18_InvalidPrunerRejected ==
    pruner_arg \notin {"selective", "complete"} =>
        /\ init_error.type = "ValueError"
        /\ init_error.invalid = pruner_arg
        /\ init_error.valid = {"selective", "complete"}
        /\ pruner = "none"
        /\ ~incremental_pfi
        /\ root = None
        /\ calls = <<>>

\* C19: the all-features fallback disables pruning: in a step in which no feature's
\* importance meets the threshold, so that the important-feature list is the full
\* feature list, a prune_tree() call of either pruner makes no structural change to
\* the tree, whatever tree the growth routine has built.
C19_FallbackDisablesPruning ==
    (/\ incremental_pfi
     /\ \A f \in DOMAIN importance_values : importance_values[f] < ImportanceThreshold
     /\ "prune_tree" \in ToSet(calls))
        => "tree_changed" \notin ToSet(calls)

\* the history of a learn_one() step without the entry of the first call's set-up
C20_Step == IF calls # <<>> /\ calls[1] = "create_ipfi" THEN Tail(calls) ELSE calls

\* C20: within every learn_one step the sub-steps run one after the other in this
\* order: the importance feed is updated exactly once and the important-feature set
\* recomputed, then, only if the set changed, the tree is pruned and the leaf counts
\* recomputed, then the tree-growth update runs exactly once, as the last sub-step;
\* at the end of the step the remembered previous set equals the set computed in
\* this step, whether or not pruning ran.
C20_SubStepOrder ==
    incremental_pfi =>
        /\ C20_Step \in {<<"update_ipfi", "learn">>,
                         <<"update_ipfi", "prune_tree", "update_leaf_counts", "learn">>,
                         <<"update_ipfi", "prune_tree", "tree_changed",
                           "update_leaf_counts", "learn">>}
        /\ last_important_features = ToSet(important_features)

\* a step that pruned and whose growth update then split on a feature outside the
\* important set: the growth update ran on the pruned tree
C20_Witness ==
    /\ incremental_pfi
    /\ "tree_changed" \in ToSet(calls)
    /\ calls[Len(calls)] = "learn"
    /\ last_important_features = ToSet(important_features)
    /\ root # None
    /\ \E n \in Reach(heap, root) :
          heap[n].kind = "branch" /\ heap[n].feature \notin last_important_features

\* a construction with a kind that only differs in spelling from a valid one
C18_Witness ==
    /\ pruner_arg = "Complete"
    /\ init_error.type = "ValueError"
    /\ pruner = "none"

\* C2: after any sequence of learn_one steps, pruning or not, the controller's
\* active-leaf count plus inactive-leaf count equals the number of leaves found by
\* enumerating the current tree from its root.
C2_LeafCountConsistent ==
    n_active_leaves + n_inactive_leaves =
        (IF root = None THEN 0 ELSE Len(iter_leaves(heap, root)))

\* a learn_one step whose prune changed the tree, over a tree with inactive leaves
C2_Witness ==
    /\ "tree_changed" \in ToSet(calls)
    /\ "learn" \in ToSet(calls)
    /\ n_inactive_leaves > 0

\* C3: in every learn_one step prune_tree() is invoked if and only if the
\* important-feature set computed in this step differs, as a set, from the one
\* computed in the previous step (in the first step: from the set of all features),
\* and the leaf counts are recomputed exactly in the steps that prune.
C3_PruneIffSetChanged ==
    [][LET prev    == IF incremental_pfi THEN ToSet(important_features)
                                         ELSE ToSet(feature_names')
           pruned  == "prune_tree" \in ToSet(calls')
           counted == "update_leaf_counts" \in ToSet(calls')
       IN /\ pruned <=> (prev # ToSet(important_features'))
          /\ counted <=> pruned]_vars

\* a step that pruned and recounted, after an earlier step
C3_Witness ==
    /\ "prune_tree" \in ToSet(calls)
    /\ "update_leaf_counts" \in ToSet(calls)
    /\ "create_ipfi" \notin ToSet(calls)

\* the features whose importance value is >= the threshold
C4_Hot == {f \in DOMAIN importance_values : importance_values[f] >= ImportanceThreshold}

\* C4: after each importance refresh the important-feature set is exactly the set
\* of features whose value is >= the threshold when there is one, and the full
\* feature-name list captured on the first observation otherwise; it depends on
\* the refreshed mapping only.
C4_ImportantFromThreshold ==
    incremental_pfi =>
        IF C4_Hot # {}
        THEN /\ ToSet(important_features) = C4_Hot
             /\ Len(important_features) = Cardinality(C4_Hot)
        ELSE important_features = feature_names

\* some features meet the threshold and some do not
C4_Witness ==
    /\ incremental_pfi
    /\ C4_Hot # {}
    /\ C4_Hot # ToSet(feature_names)

\* C21: the controller moves from uninitialized to active exactly once: the first
\* learn_one call captures the feature-name list from the keys of its instance,
\* treats all features as important and creates the importance feed; every later
\* call leaves the controller active, does not create the feed again and does not
\* change the captured feature-name list, whatever keys its instance carries.
C21_InitializedOnce ==
    [][/\ incremental_pfi'
       /\ ~incremental_pfi =>
             /\ feature_names' = InstanceKeys
             /\ important_features' = feature_names'
             /\ last_important_features' = ToSet(feature_names')
             /\ calls'[1] = "create_ipfi"
       /\ incremental_pfi =>
             /\ feature_names' = feature_names
             /\ "create_ipfi" \notin ToSet(calls')]_vars

\* an active controller after a later call, whose tree splits on a feature that the
\* first instance did not carry
C21_Witness ==
    /\ incremental_pfi
    /\ feature_names = InstanceKeys
    /\ "create_ipfi" \notin ToSet(calls)
    /\ \E n \in DOMAIN heap :
          heap[n].kind = "branch" /\ heap[n].feature \notin ToSet(feature_names)

(***************************************************************************)
(* Claims about the pruners (SpecPrune)                                    *)
(***************************************************************************)
\* the last operation was prune_tree() of pruner p; pre is the tree it started on
AfterPrune(p) == calls # <<>> /\ calls[1] = "prune_tree" /\ pruner = p

Unimportant(h, n) ==
    h[n].kind = "branch" /\ h[n].feature \notin ToSet(important_features)

\* the node in the slot <<parent, index>> of the tree (h, r)
Occupant(h, r, slot) ==
    IF slot[1] = None THEN r ELSE h[slot[1]].children[slot[2] + 1]

\* the nodes the preorder walk of the Complete pruner reaches from n: it descends
\* through branches that split on important features only
RECURSIVE C5_Visited(_, _)
C5_Visited(h, n) ==
    {n} \cup (IF h[n].kind = "branch" /\ ~Unimportant(h, n)
              THEN UNION {C5_Visited(h, h[n].children[i]) : i \in 1..Len(h[n].children)}
              ELSE {})

\* C5: CompletePruner replaces every Branch reached by the preorder walk whose
\* split feature is not important by one freshly created Leaf that starts with the
\* branch's own statistics; the leaf sits in the branch's slot (parent.children[index]
\* or the root), and nothing of the replaced subtree is reachable any more.
C5_CompleteReplacesByLeaf ==
    AfterPrune("complete") =>
        \A b \in C5_Visited(pre.heap, pre.root) :
            Unimportant(pre.heap, b) =>
                LET slot == SlotOf(pre.heap, pre.root, b)
                    r    == Occupant(heap, root, slot)
                IN /\ slot[1] # None => /\ slot[1] \in DOMAIN heap
                                        /\ Len(heap[slot[1]].children) =
                                               Len(pre.heap[slot[1]].children)
                   /\ r \notin DOMAIN pre.heap
                   /\ heap[r].kind = "leaf"
                   /\ heap[r].children = <<>>
                   /\ heap[r].stats = pre.heap[b].stats
                   /\ Reach(pre.heap, b) \cap DOMAIN heap = {}

\* a branch below the root was replaced, and its statistics differ from those of
\* each of its children
C5_Witness ==
    /\ AfterPrune("complete")
    /\ \E b \in C5_Visited(pre.heap, pre.root) :
          /\ Unimportant(pre.heap, b)
          /\ SlotOf(pre.heap, pre.root, b)[1] # None
          /\ \A i \in 1..Len(pre.heap[b].children) :
                pre.heap[pre.heap[b].children[i]].stats # pre.heap[b].stats

RECURSIVE C6_SumPromise(_, _)
C6_SumPromise(h, S) ==
    IF S = {} THEN 0
    ELSE LET l == CHOOSE x \in S : TRUE
         IN h[l].stats + C6_SumPromise(h, S \ {l})

RECURSIVE C6_Leaves(_, _)
RECURSIVE C6_Pick(_, _)
RECURSIVE C6_Result(_, _)
\* the leaves of the pruned subtree that stands for n
C6_Leaves(h, n) ==
    IF h[n].kind = "leaf" THEN {n}
    ELSE IF Unimportant(h, n) THEN C6_Leaves(h, h[n].children[C6_Pick(h, n)])
    ELSE UNION {C6_Leaves(h, h[n].children[i]) : i \in 1..Len(h[n].children)}
\* the position of the child of the unimportant branch n whose pruned subtree has
\* the highest unweighted mean leaf promise, the first one among equals
C6_Pick(h, n) ==
    LET ch     == h[n].children
        tot(i) == C6_SumPromise(h, C6_Leaves(h, ch[i]))
        cnt(i) == Cardinality(C6_Leaves(h, ch[i]))
    IN CHOOSE i \in 1..Len(ch) :
          /\ \A j \in 1..Len(ch) : tot(j) * cnt(i) <= tot(i) * cnt(j)
          /\ \A j \in 1..(i - 1) : tot(j) * cnt(i) < tot(i) * cnt(j)
\* the node that stands for n after pruning
C6_Result(h, n) ==
    IF Unimportant(h, n) THEN C6_Result(h, h[n].children[C6_Pick(h, n)]) ELSE n

\* C6: SelectivePruner replaces a Branch whose split feature is not important by
\* exactly one of its already-pruned children, the one with the highest average
\* promise (a leaf's own promise, a branch's unweighted mean over the leaves of its
\* pruned subtree), the first in children order among equals; the other children
\* are discarded.
C6_SelectiveKeepsBestChild ==
    AfterPrune("selective") =>
        \A b \in DOMAIN pre.heap :
            LET slot == SlotOf(pre.heap, pre.root, b)
            IN (Unimportant(pre.heap, b) /\ (slot[1] = None \/ slot[1] \in DOMAIN heap)) =>
                  /\ Occupant(heap, root, slot) = C6_Result(pre.heap, b)
                  /\ b \notin DOMAIN heap
                  /\ \A i \in 1..Len(pre.heap[b].children) :
                        i # C6_Pick(pre.heap, b) =>
                            Reach(pre.heap, pre.heap[b].children[i]) \cap DOMAIN heap = {}

\* an unimportant branch below a kept parent was replaced by a child that is not its
\* first one
C6_Witness ==
    /\ AfterPrune("selective")
    /\ \E b \in DOMAIN pre.heap :
          /\ Unimportant(pre.heap, b)
          /\ SlotOf(pre.heap, pre.root, b)[1] \in DOMAIN heap
          /\ C6_Pick(pre.heap, b) # 1

\* C7: SelectivePruner keeps a Branch whose split feature is important as the same
\* node; its children list is replaced by the list of its pruned children, of the
\* same length and order (position i holds the pruning result of the old child i,
\* Leaf children unchanged); prune_tree installs the result for the root as root.
C7_SelectiveKeepsImportant ==
    AfterPrune("selective") =>
        /\ root = C6_Result(pre.heap, pre.root)
        /\ \A b \in DOMAIN heap :
              heap[b].kind = "branch" =>
                 /\ b \in DOMAIN pre.heap
                 /\ pre.heap[b].kind = "branch"
                 /\ ~Unimportant(pre.heap, b)
                 /\ heap[b].feature = pre.heap[b].feature
                 /\ heap[b].stats = pre.heap[b].stats
                 /\ Len(heap[b].children) = Len(pre.heap[b].children)
                 /\ \A i \in 1..Len(heap[b].children) :
                       LET old == pre.heap[b].children[i]
                       IN /\ heap[b].children[i] = C6_Result(pre.heap, old)
                          /\ pre.heap[old].kind = "leaf" =>
                                /\ heap[b].children[i] = old
                                /\ heap[old] = pre.heap[old]

\* the root was kept, one of its children was replaced and a leaf child stayed
C7_Witness ==
    /\ AfterPrune("selective")
    /\ root = pre.root
    /\ IsBranch(heap, root)
    /\ \E i \in 1..Len(heap[root].children) :
          heap[root].children[i] # pre.heap[root].children[i]
    /\ \E i \in 1..Len(heap[root].children) :
          pre.heap[pre.heap[root].children[i]].kind = "leaf"

\* the number of prune_tree() calls since the growth routine last ran
PruneCalls == Cardinality({i \in 1..Len(calls) : calls[i] = "prune_tree"})

\* C8: calling CompletePruner.prune_tree() twice in a row with the same
\* important-feature set leaves the tree after the second call identical to the
\* tree after the first call: the second call replaces no node.
C8_CompleteIdempotent ==
    (pruner = "complete" /\ PruneCalls = 2) =>
        /\ heap = pre.heap
        /\ root = pre.root
        /\ calls[Len(calls)] = "prune_tree"

\* two calls in a row, the first of which changed the tree
C8_Witness ==
    /\ pruner = "complete"
    /\ calls = <<"prune_tree", "tree_changed", "prune_tree">>

\* every Branch of the tree (h, r) has children
C9_BranchesHaveChildren(h) ==
    \A n \in DOMAIN h : h[n].kind = "branch" => h[n].children # <<>>

\* C9: when every Branch of the input tree has a non-empty children list, then after
\* SelectivePruner.prune_tree() the root is a node and every Branch reachable from
\* it has a non-empty list of children that are nodes.
C9_SelectiveKeepsChildren ==
    (AfterPrune("selective") /\ C9_BranchesHaveChildren(pre.heap)) =>
        /\ root # None
        /\ root \in DOMAIN heap
        /\ heap[root].kind \in {"leaf", "branch"}
        /\ C9_BranchesHaveChildren(heap)
        /\ \A n \in DOMAIN heap : \A i \in 1..Len(heap[n].children) :
              heap[n].children[i] \in DOMAIN heap

\* a prune that changed the tree and left a branch at the root
C9_Witness ==
    /\ AfterPrune("selective")
    /\ "tree_changed" \in ToSet(calls)
    /\ IsBranch(heap, root)

\* the last operation was prune_tree() of either pruner
C22_AfterPrune == calls # <<>> /\ calls[1] = "prune_tree"

\* the branches of the tree (h, r)
C22_Branches(h, r) == {n \in Reach(h, r) : h[n].kind = "branch"}

\* C22: pruning never creates or re-creates a Branch: for either pruner every Branch
\* reachable from the root after prune_tree() is a node that was a Branch reachable
\* from the root before the call, so the number of branches does not increase, and
\* a Leaf of the tree before the call that is still reachable is still a Leaf.
C22_NoNewBranch ==
    C22_AfterPrune =>
        /\ \A b \in C22_Branches(heap, root) : b \in C22_Branches(pre.heap, pre.root)
        /\ Cardinality(C22_Branches(heap, root)) <=
               Cardinality(C22_Branches(pre.heap, pre.root))
        /\ \A l \in Reach(pre.heap, pre.root) \cap Reach(heap, root) :
               pre.heap[l].kind = "leaf" => heap[l].kind = "leaf" /\ heap[l].children = <<>>

\* a prune that removed a branch and kept another one
C22_Witness ==
    /\ C22_AfterPrune
    /\ "tree_changed" \in ToSet(calls)
    /\ C22_Branches(heap, root) # {}
    /\ Cardinality(C22_Branches(heap, root)) < Cardinality(C22_Branches(pre.heap, pre.root))

\* C23: CompletePruner.prune_tree() leaves untouched every Leaf of the tree that
\* remains reachable and every Branch that splits on an important feature below
\* ancestors that all split on important features: such a branch is still in the
\* tree as the same node with its split feature, statistics and depth and with as
\* many children in the same order, and the recursion has visited every child: the
\* child at position i is the old child i, or a new leaf when the old child was a
\* branch that splits on a feature that is not important.
C23_CompleteFrame ==
    AfterPrune("complete") =>
        /\ \A l \in Reach(heap, root) \cap DOMAIN pre.heap :
               pre.heap[l].kind = "leaf" => heap[l] = pre.heap[l]
        /\ \A b \in C5_Visited(pre.heap, pre.root) :
               (pre.heap[b].kind = "branch" /\ ~Unimportant(pre.heap, b)) =>
                   /\ b \in Reach(heap, root)
                   /\ SlotOf(heap, root, b) = SlotOf(pre.heap, pre.root, b)
                   /\ [heap[b] EXCEPT !.children = <<>>] =
                          [pre.heap[b] EXCEPT !.children = <<>>]
                   /\ Len(heap[b].children) = Len(pre.heap[b].children)
                   /\ \A i \in 1..Len(heap[b].children) :
                          LET old == pre.heap[b].children[i]
                              new == heap[b].children[i]
                          IN IF Unimportant(pre.heap, old)
                             THEN new \notin DOMAIN pre.heap /\ heap[new].kind = "leaf"
                             ELSE new = old

\* the root was kept and its last child, a branch, was replaced while a leaf before
\* it stayed
C23_Witness ==
    /\ AfterPrune("complete")
    /\ IsBranch(heap, root)
    /\ root = pre.root
    /\ LET k == Len(pre.heap[root].children)
       IN /\ k > 1
          /\ Unimportant(pre.heap, pre.heap[root].children[k])
          /\ heap[root].children[1] = pre.heap[root].children[1]

\* the last learn_one call raised
C24_Raised == "raise" \in ToSet(calls)

\* the tree as the controller holds it
C24_Tree == <<heap, root, n_active_leaves, n_inactive_leaves>>

C25_OnlyImportantBranches ==
    C22_AfterPrune => \A b \in Reach(heap, root) : ~Unimportant(heap, b)

\* a Selective prune of a tree with two branches of which one, not important, went
\* and one stayed
C25_Witness ==
    /\ AfterPrune("selective")
    /\ Cardinality(C22_Branches(pre.heap, pre.root)) = 2
    /\ \E b \in C22_Branches(pre.heap, pre.root) : Unimportant(pre.heap, b)
    /\ Cardinality(C22_Branches(heap, root)) = 1

\* C26: SelectivePruner creates no node: every node reachable from the root after
\* prune_tree() was reachable before the call and is of the kind it was, every Leaf
\* that survives keeps its statistics, its activity flag and its promise, and the
\* tree has at most as many nodes as before.
C26_SelectiveCreatesNoNode ==
    AfterPrune("selective") =>
        /\ Reach(heap, root) \subseteq Reach(pre.heap, pre.root)
        /\ Cardinality(Reach(heap, root)) <= Cardinality(Reach(pre.heap, pre.root))
        /\ \A n \in Reach(heap, root) :
               /\ heap[n].kind = pre.heap[n].kind
               /\ heap[n].kind = "leaf" =>
                      /\ heap[n].stats = pre.heap[n].stats
                      /\ heap[n].active = pre.heap[n].active
                      /\ calculate_promise(heap, n) = calculate_promise(pre.heap, n)

\* the root, not important, was replaced by a leaf among its children that had
\* gathered statistics
C26_Witness ==
    /\ AfterPrune("selective")
    /\ IsBranch(pre.heap, pre.root)
    /\ IsLeaf(heap, root)
    /\ heap[root].stats > 0
    /\ Cardinality(Reach(heap, root)) < Cardinality(Reach(pre.heap, pre.root))

\* every node of the tree (h, r) records its distance from the root as its depth
C27_DepthConsistent(h, r) ==
    r # None =>
        /\ h[r].depth = 0
        /\ \A n \in Reach(h, r) : \A i \in 1..Len(h[n].children) :
               h[h[n].children[i]].depth = h[n].depth + 1

\* C27: after prune_tree() of either pruner, called on a tree whose nodes record
\* their distance from the root as their depth, every node's recorded depth is
\* again its distance from the root (the root at depth 0, each child one deeper
\* than its parent).
C27_DepthIsDistance ==
    (C22_AfterPrune /\ C27_DepthConsistent(pre.heap, pre.root)) =>
        C27_DepthConsistent(heap, root)

\* the tree (h, r) has no root or its root is a Leaf
C28_NoBranch(h, r) == r = None \/ h[r].kind = "leaf"

C29_ScheduleAhead ==
    [][kind = "uniform" =>
          /\ algo_l_counter' > stored_samples'
          /\ (stored_samples' > size /\ algo_l_counter = stored_samples') =>
                 /\ n_repl' = n_repl + 1
                 /\ stored_samples' \in ToSet(storage_x')
                 /\ algo_l_counter' > algo_l_counter]_vars

\* a second replacement has happened and the next one is more than one item away
C29_Witness ==
    /\ kind = "uniform"
    /\ n_repl >= 2
    /\ stored_samples > size
    /\ algo_l_counter > stored_samples + 1

\* C30: in both reservoir variants with label storage enabled, after any sequence of
\* update() calls the label buffer is as long as the feature buffer and the label
\* in each slot is the one that was passed in the same update() call as the feature
\* vector in that slot; with label storage disabled the label buffer stays empty.
C30_LabelsFollowFeatures ==
    kind # "none" =>
        IF store_targets
        THEN /\ Len(storage_y) = Len(storage_x)
             /\ \A k \in 1..Len(storage_x) : storage_y[k] = YOf(storage_x[k])
        ELSE storage_y = <<>>

\* a full reservoir with labels in which a slot that is not the last one has been
\* overwritten
C30_Witness ==
    /\ kind # "none"
    /\ store_targets
    /\ Len(storage_x) = size
    /\ size > 1
    /\ n_repl >= 1
    /\ storage_x[1] > size
    /\ storage_y[1] = YOf(storage_x[1])

====
